---- MODULE Spec2Model ----
(***************************************************************************)
(* Anonymous-user search quota of the CuraLink backend:                    *)
(* middleware/deviceToken.js.  The Identity Store (DeviceToken collection) *)
(* and the Network-Origin Store (IPLimit collection) are the persistent    *)
(* state; getOrCreateDeviceToken, checkSearchLimit and incrementSearchCount *)
(* are the operations.  Every store call may reject (store unavailable).   *)
(***************************************************************************)
EXTENDS Integers, Sequences, FiniteSets, TLC

\* ------------------------------------------------------------- bounds
\* Number of tokens crypto.randomUUID() hands out in one run.
MaxUUID == 2
\* Cap on a record's searchCount (above MAX_FREE_SEARCHES, so that the
\* counter passes the quota).
MaxCount == 7

\* ------------------------------------------------------ program constants
DEVICE_TOKEN_COOKIE_NAME == "device_token"
MAX_FREE_SEARCHES == 6
\* maxAge: 365 * 24 * 60 * 60 * 1000 ms, kept in seconds (one year)
COOKIE_MAX_AGE_S == 365 * 24 * 60 * 60
IP_HASH_SALT == "default-salt-change-in-production"

\* ------------------------------------------------------------ JS values
\* null / undefined, the empty string, and a Date
Null == "null"
EmptyStr == ""
ADate == "date"

\* JavaScript truthiness of a string-or-null value: !v
Falsy(v) == v = Null \/ v = EmptyStr

Max(a, b) == IF a >= b THEN a ELSE b
Min(a, b) == IF a <= b THEN a ELSE b

\* crypto.randomUUID(): the n-th call returns a value never returned before
\* and never presented by a client (a 122-bit random value).
UUIDPool == <<"uuid-1", "uuid-2", "uuid-3", "uuid-4">>
randomUUID(n) == UUIDPool[n + 1]
UUIDs == {UUIDPool[i] : i \in 1..MaxUUID}
\* A cookie value whose record is not in the Identity Store (orphaned cookie).
StaleToken == "stale-token"
TokenValues == UUIDs \cup {StaleToken}

ClientAddr == "203.0.113.7"
ProxyAddr == "10.0.0.1"

VARIABLES
  deviceTokens,   \* DeviceToken collection: token -> [searchCount, lastSearchAt]
  ipLimits,       \* IPLimit collection: hashedIP -> [searchCount, lastSearchAt]
  uuidCount,      \* number of crypto.randomUUID() values handed out
  last,           \* the last completed call: its arguments and what it did
  trip,           \* the round trip under observation: its identity, the
                  \* incrementSearchCount calls made for it, and how many of
                  \* them reached the Identity Store
  tasks,          \* the requests in flight: where each one stands between
                  \* two awaits, with its arguments and locals
  tally,          \* what the requests in flight have done so far: store
                  \* updates applied, updates rejected, searches performed
  probe           \* a request whose address is being derived, and the result

vars == <<deviceTokens, ipLimits, uuidCount, last, trip, tasks, tally, probe>>

\* ------------------------------------------------------------ requests
\* req = null (the default of the req parameter)
NoReq ==
  [isNull |-> TRUE, user |-> FALSE, cookie |-> Null, protocol |-> "http",
   xForwardedFor |-> <<>>, xRealIp |-> Null, remoteAddress |-> Null,
   socketRemoteAddress |-> Null, ip |-> Null]

\* A request as the middleware sees it.  xForwardedFor is the header after
\* split(",") and trim() of each entry; <<>> is the absent or empty header
\* (falsy), any other value a truthy header.
Request(user, cookie, protocol, xff, xri, remote) ==
  [isNull |-> FALSE, user |-> user, cookie |-> cookie, protocol |-> protocol,
   xForwardedFor |-> xff, xRealIp |-> xri, remoteAddress |-> remote,
   socketRemoteAddress |-> Null, ip |-> Null]

\* getClientIP that trusts x-real-ip before x-forwarded-for
getClientIP_realIpFirst(req) ==
  IF ~Falsy(req.xRealIp)
    THEN req.xRealIp
  ELSE IF req.xForwardedFor # <<>>
    THEN req.xForwardedFor[1]
  ELSE IF ~Falsy(req.remoteAddress)
    THEN req.remoteAddress
  ELSE IF ~Falsy(req.socketRemoteAddress)
    THEN req.socketRemoteAddress
  ELSE IF ~Falsy(req.ip)
    THEN req.ip
  ELSE Null

\* getClientIP that takes the last entry of x-forwarded-for (the nearest
\* proxy)
getClientIP_lastEntry(req) ==
  IF req.xForwardedFor # <<>>
    THEN req.xForwardedFor[Len(req.xForwardedFor)]
  ELSE IF ~Falsy(req.xRealIp)
    THEN req.xRealIp
  ELSE IF ~Falsy(req.remoteAddress)
    THEN req.remoteAddress
  ELSE IF ~Falsy(req.socketRemoteAddress)
    THEN req.socketRemoteAddress
  ELSE IF ~Falsy(req.ip)
    THEN req.ip
  ELSE Null

\* lines 12-28, from the test of line 15 on
getClientIP(req) ==
  IF req.xForwardedFor # <<>>
    THEN req.xForwardedFor[1]
  ELSE IF ~Falsy(req.xRealIp)
    THEN req.xRealIp
  ELSE IF ~Falsy(req.remoteAddress)
    THEN req.remoteAddress
  ELSE IF ~Falsy(req.socketRemoteAddress)
    THEN req.socketRemoteAddress
  ELSE IF ~Falsy(req.ip)
    THEN req.ip
  ELSE Null

\* The x-forwarded-for header as it arrives: a string, here the sequence of
\* its pieces, each an address, a comma or a blank.
Comma == ","
Blank == " "

\* String.prototype.split(","): the pieces between the commas; a string
\* without a comma (the empty one too) gives one entry
RECURSIVE split(_)
split(header) ==
  IF header = <<>> THEN << <<>> >>
  ELSE LET rest == split(Tail(header)) IN
       IF Head(header) = Comma
         THEN << <<>> >> \o rest
         ELSE << <<Head(header)>> \o rest[1] >> \o Tail(rest)

\* String.prototype.trim(): blanks off both ends
RECURSIVE trimStart(_)
trimStart(entry) ==
  IF entry # <<>> /\ Head(entry) = Blank THEN trimStart(Tail(entry)) ELSE entry

RECURSIVE trimEnd(_)
trimEnd(entry) ==
  IF entry # <<>> /\ entry[Len(entry)] = Blank
    THEN trimEnd(SubSeq(entry, 1, Len(entry) - 1))
    ELSE entry

trim(entry) == trimEnd(trimStart(entry))

\* the string an entry stands for: empty, or its one address
text(entry) == IF entry = <<>> THEN EmptyStr ELSE entry[1]

\* line 17: forwardedFor.split(",").map((ip) => ip.trim())
splitForwardedFor(header) ==
  LET entries == split(header) IN
  [i \in 1..Len(entries) |-> text(trim(entries[i]))]

\* lines 14-18: the request with this x-forwarded-for header; the empty
\* string is as falsy as no header
withForwardedFor(req, header) ==
  [req EXCEPT !.xForwardedFor =
     IF header = <<>> THEN <<>> ELSE splitForwardedFor(header)]

\* lines 34-46: salted SHA-256, modelled as an injective digest of ip + salt
NullHash == <<>>
hashIP(ip) ==
  IF Falsy(ip) THEN NullHash ELSE <<"sha256", ip, IP_HASH_SALT>>

\* --------------------------------------------------------------- stores
\* Model.findOne(filter): the record, or NoDoc
NoDoc == [searchCount |-> -1, lastSearchAt |-> Null]
findOne(coll, key) == IF key \in DOMAIN coll THEN coll[key] ELSE NoDoc

\* DeviceToken.create({token, searchCount: 0}); the schema leaves
\* lastSearchAt unset
NewDoc == [searchCount |-> 0, lastSearchAt |-> Null]
create(coll, key) ==
  [k \in DOMAIN coll \cup {key} |-> IF k = key THEN NewDoc ELSE coll[k]]

\* findOneAndUpdate with {$inc: {searchCount: -1}}
findOneAndUpdate_decrement(coll, key) ==
  IF key \in DOMAIN coll
    THEN [coll EXCEPT ![key] = [searchCount |-> @.searchCount - 1,
                                lastSearchAt |-> ADate]]
    ELSE coll

\* findOneAndUpdate that marks the record as searched instead of counting:
\* {$set: {searchCount: 1}}
findOneAndUpdate_mark(coll, key) ==
  IF key \in DOMAIN coll
    THEN [coll EXCEPT ![key] = [searchCount |-> 1, lastSearchAt |-> ADate]]
    ELSE coll

\* findOneAndUpsert without {upsert: true}
findOneAndUpsert_noUpsert(coll, key) ==
  IF key \in DOMAIN coll
    THEN [coll EXCEPT ![key] = [searchCount |-> @.searchCount + 1,
                                lastSearchAt |-> ADate]]
    ELSE coll

\* findOneAndUpdate(filter, {$inc: {searchCount: 1}, $set: {lastSearchAt}})
\* without upsert: no matching record, no change
findOneAndUpdate(coll, key) ==
  IF key \in DOMAIN coll
    THEN [coll EXCEPT ![key] = [searchCount |-> @.searchCount + 1,
                                lastSearchAt |-> ADate]]
    ELSE coll

\* the same with {upsert: true}: a missing record is inserted with the
\* $inc applied to 0
findOneAndUpsert(coll, key) ==
  IF key \in DOMAIN coll
    THEN findOneAndUpdate(coll, key)
    ELSE [k \in DOMAIN coll \cup {key} |->
            IF k = key THEN [searchCount |-> 1, lastSearchAt |-> ADate]
                       ELSE coll[k]]

\* ------------------------------------------------- getOrCreateDeviceToken
\* lines 80-86 and 107-113: the options of the cookie that carries a new token
cookieOptions(env) ==
  [httpOnly |-> TRUE, secure |-> (env = "production"), sameSite |-> "lax",
   maxAge |-> COOKIE_MAX_AGE_S, path |-> "/"]

\* src/unnamed/part_001 lines 34-45 and 59-70: the options in the revision
\* that looks at the request; vercel is process.env.VERCEL being set
cookieOptionsV1(env, vercel, protocol, xForwardedProto) ==
  LET isProduction == \/ env = "production"
                      \/ vercel
                      \/ protocol = "https"
                      \/ xForwardedProto = "https"
  IN
  [httpOnly |-> TRUE, secure |-> isProduction,
   sameSite |-> IF isProduction THEN "none" ELSE "lax",
   maxAge |-> COOKIE_MAX_AGE_S, path |-> "/"]

\* res.cookie(name, value, options)
Cookie(value, env) ==
  [name |-> DEVICE_TOKEN_COOKIE_NAME, value |-> value,
   options |-> cookieOptions(env)]

\* What one run of the middleware did: the collection it leaves, the value of
\* req.deviceToken, the cookies it set on the response, the number of next()
\* calls, the store calls it made in order and those of them that rejected.
Outcome(coll, n, deviceToken, cookies, nextCalls, storeCalls, failed) ==
  [deviceTokens |-> coll, uuidCount |-> n, deviceToken |-> deviceToken,
   cookies |-> cookies, nextCalls |-> nextCalls, storeCalls |-> storeCalls,
   failed |-> failed]

\* mintToken whose catch block drops the request: no next() after a rejected
\* create
mintToken_noNext(coll, n, env, calls, createFails) ==
  LET token == randomUUID(n) IN
  IF createFails \/ token \in DOMAIN coll
    THEN Outcome(coll, n + 1, Null, <<>>, 0,
                 Append(calls, "DeviceToken.create"), {"DeviceToken.create"})
    ELSE Outcome(create(coll, token), n + 1, token, <<Cookie(token, env)>>, 1,
                 Append(calls, "DeviceToken.create"), {})

\* mintToken that sends the cookie before the record is created
mintToken_cookieFirst(coll, n, env, calls, createFails) ==
  LET token == randomUUID(n) IN
  IF createFails \/ token \in DOMAIN coll
    THEN Outcome(coll, n + 1, Null, <<Cookie(token, env)>>, 1,
                 Append(calls, "DeviceToken.create"), {"DeviceToken.create"})
    ELSE Outcome(create(coll, token), n + 1, token, <<Cookie(token, env)>>, 1,
                 Append(calls, "DeviceToken.create"), {})

\* mintToken that forgets res.cookie
mintToken_noCookie(coll, n, env, calls, createFails) ==
  LET token == randomUUID(n) IN
  IF createFails \/ token \in DOMAIN coll
    THEN Outcome(coll, n + 1, Null, <<>>, 1,
                 Append(calls, "DeviceToken.create"), {"DeviceToken.create"})
    ELSE Outcome(create(coll, token), n + 1, token, <<>>, 1,
                 Append(calls, "DeviceToken.create"), {})

\* lines 70-87 and 101-113: mint a token, create its record, set the cookie;
\* then lines 117-118.  A rejected create (store error, or the unique index
\* on token) lands in the catch block of lines 119-124.
mintToken(coll, n, env, calls, createFails) ==
  LET token == randomUUID(n) IN
  IF createFails \/ token \in DOMAIN coll
    THEN Outcome(coll, n + 1, Null, <<>>, 1,
                 Append(calls, "DeviceToken.create"), {"DeviceToken.create"})
    ELSE Outcome(create(coll, token), n + 1, token, <<Cookie(token, env)>>, 1,
                 Append(calls, "DeviceToken.create"), {})

\* resolveAnonymous that accepts a cookie without looking at the record found
resolveAnonymous_remint(req, coll, n, env, findFails, createFails) ==
  IF Falsy(req.cookie)
    THEN mintToken(coll, n, env, <<>>, createFails)
  ELSE IF findFails
    THEN Outcome(coll, n, Null, <<>>, 1, <<"DeviceToken.findOne">>,
                 {"DeviceToken.findOne"})
  ELSE mintToken(coll, n, env, <<"DeviceToken.findOne">>, createFails)

\* resolveAnonymous that revives an orphaned token: the record is created
\* and the cookie set under the presented value
resolveAnonymous_revive(req, coll, n, env, findFails, createFails) ==
  IF Falsy(req.cookie)
    THEN mintToken(coll, n, env, <<>>, createFails)
  ELSE IF findFails
    THEN Outcome(coll, n, Null, <<>>, 1, <<"DeviceToken.findOne">>,
                 {"DeviceToken.findOne"})
  ELSE IF findOne(coll, req.cookie) = NoDoc
    THEN IF createFails
           THEN Outcome(coll, n, Null, <<>>, 1,
                        <<"DeviceToken.findOne", "DeviceToken.create">>,
                        {"DeviceToken.create"})
           ELSE Outcome(create(coll, req.cookie), n, req.cookie,
                        <<Cookie(req.cookie, env)>>, 1,
                        <<"DeviceToken.findOne", "DeviceToken.create">>, {})
  ELSE Outcome(coll, n, req.cookie, <<>>, 1, <<"DeviceToken.findOne">>, {})

\* lines 60-124: the request of a caller with no session
resolveAnonymous(req, coll, n, env, findFails, createFails) ==
  IF Falsy(req.cookie)
    THEN mintToken(coll, n, env, <<>>, createFails)
  ELSE IF findFails
    THEN Outcome(coll, n, Null, <<>>, 1, <<"DeviceToken.findOne">>,
                 {"DeviceToken.findOne"})
  ELSE IF findOne(coll, req.cookie) = NoDoc
    THEN mintToken(coll, n, env, <<"DeviceToken.findOne">>, createFails)
  ELSE Outcome(coll, n, req.cookie, <<>>, 1, <<"DeviceToken.findOne">>, {})

\* getOrCreateDeviceToken without the req.user test of lines 55-58
getOrCreateDeviceToken_noUserTest(req, coll, n, env, findFails, createFails) ==
  resolveAnonymous(req, coll, n, env, findFails, createFails)

\* lines 52-125
getOrCreateDeviceToken(req, coll, n, env, findFails, createFails) ==
  IF req.user
    THEN Outcome(coll, n, Null, <<>>, 1, <<>>, {})
    ELSE resolveAnonymous(req, coll, n, env, findFails, createFails)

\* ------------------------------------------------------- checkSearchLimit
Result(canSearch, remaining) == [canSearch |-> canSearch, remaining |-> remaining]

\* What the caller gets when an async function lets an error out: a rejected
\* promise, no value
Thrown == Result(FALSE, -2)

\* limitOf with >= for > in canSearch
limitOf_inclusive(doc) ==
  LET remaining == Max(0, MAX_FREE_SEARCHES - doc.searchCount) IN
  Result(remaining >= 0, remaining)

\* limitOf without Math.max(0, ...)
limitOf_noClamp(doc) ==
  LET remaining == MAX_FREE_SEARCHES - doc.searchCount IN
  Result(remaining > 0, remaining)

\* lines 151-157 and 207-214: the remaining count of one record
limitOf(doc) ==
  LET remaining == Max(0, MAX_FREE_SEARCHES - doc.searchCount) IN
  Result(remaining > 0, remaining)

\* checkIPSearchLimit whose catch block denies
checkIPSearchLimit_failClosed(req, coll, findFails) ==
  LET clientIP == getClientIP(req)
      hashedIP == hashIP(clientIP)
  IN
  IF Falsy(clientIP) THEN Result(TRUE, MAX_FREE_SEARCHES)
  ELSE IF hashedIP = NullHash THEN Result(TRUE, MAX_FREE_SEARCHES)
  ELSE IF findFails THEN Result(FALSE, 0)
  ELSE IF findOne(coll, hashedIP) = NoDoc THEN Result(TRUE, MAX_FREE_SEARCHES)
  ELSE limitOf(findOne(coll, hashedIP))

\* checkIPSearchLimit without its try block: a rejected lookup leaves the
\* function, and checkSearchLimit with it
checkIPSearchLimit_noCatch(req, coll, findFails) ==
  LET clientIP == getClientIP(req)
      hashedIP == hashIP(clientIP)
  IN
  IF Falsy(clientIP) THEN Result(TRUE, MAX_FREE_SEARCHES)
  ELSE IF hashedIP = NullHash THEN Result(TRUE, MAX_FREE_SEARCHES)
  ELSE IF findFails THEN Thrown
  ELSE IF findOne(coll, hashedIP) = NoDoc THEN Result(TRUE, MAX_FREE_SEARCHES)
  ELSE limitOf(findOne(coll, hashedIP))

\* checkIPSearchLimit that treats an address without a record like a token
\* without a record
checkIPSearchLimit_noRecordDenied(req, coll, findFails) ==
  LET clientIP == getClientIP(req)
      hashedIP == hashIP(clientIP)
  IN
  IF Falsy(clientIP) THEN Result(TRUE, MAX_FREE_SEARCHES)
  ELSE IF hashedIP = NullHash THEN Result(TRUE, MAX_FREE_SEARCHES)
  ELSE IF findFails THEN Result(TRUE, MAX_FREE_SEARCHES)
  ELSE IF findOne(coll, hashedIP) = NoDoc THEN Result(FALSE, 0)
  ELSE limitOf(findOne(coll, hashedIP))

\* lines 131-163
checkIPSearchLimit(req, coll, findFails) ==
  LET clientIP == getClientIP(req)
      hashedIP == hashIP(clientIP)
  IN
  IF Falsy(clientIP) THEN Result(TRUE, MAX_FREE_SEARCHES)
  ELSE IF hashedIP = NullHash THEN Result(TRUE, MAX_FREE_SEARCHES)
  ELSE IF findFails THEN Result(TRUE, MAX_FREE_SEARCHES)
  ELSE IF findOne(coll, hashedIP) = NoDoc THEN Result(TRUE, MAX_FREE_SEARCHES)
  ELSE limitOf(findOne(coll, hashedIP))

\* deviceTokenLimit that treats a missing record like a missing address record
deviceTokenLimit_noRecordAllowed(deviceToken, coll, findFails) ==
  IF Falsy(deviceToken) THEN Result(FALSE, 0)
  ELSE IF findFails THEN Result(FALSE, 0)
  ELSE IF findOne(coll, deviceToken) = NoDoc THEN Result(TRUE, MAX_FREE_SEARCHES)
  ELSE limitOf(findOne(coll, deviceToken))

\* deviceTokenLimit whose catch block allows, like checkIPSearchLimit
deviceTokenLimit_failOpen(deviceToken, coll, findFails) ==
  IF Falsy(deviceToken) THEN Result(FALSE, 0)
  ELSE IF findFails THEN Result(TRUE, MAX_FREE_SEARCHES)
  ELSE IF findOne(coll, deviceToken) = NoDoc THEN Result(FALSE, 0)
  ELSE limitOf(findOne(coll, deviceToken))

\* lines 200-219: the device token signal; the catch block of lines 216-218
\* keeps the initial {canSearch: false, remaining: 0}
deviceTokenLimit(deviceToken, coll, findFails) ==
  IF Falsy(deviceToken) THEN Result(FALSE, 0)
  ELSE IF findFails THEN Result(FALSE, 0)
  ELSE IF findOne(coll, deviceToken) = NoDoc THEN Result(FALSE, 0)
  ELSE limitOf(findOne(coll, deviceToken))

\* lines 222-225: the address signal
ipLimit(req, coll, findFails) ==
  IF req.isNull THEN Result(TRUE, MAX_FREE_SEARCHES)
  ELSE checkIPSearchLimit(req, coll, findFails)

\* combine with || for && and the larger remaining count
combine_either(deviceTokenResult, ipResult) ==
  Result(deviceTokenResult.canSearch \/ ipResult.canSearch,
         Max(deviceTokenResult.remaining, ipResult.remaining))

\* lines 227-232
combine(deviceTokenResult, ipResult) ==
  Result(deviceTokenResult.canSearch /\ ipResult.canSearch,
         Min(deviceTokenResult.remaining, ipResult.remaining))

\* lines 198-233
checkSearchLimit(deviceToken, req, tokens, ips, tokenFindFails, ipFindFails) ==
  combine(deviceTokenLimit(deviceToken, tokens, tokenFindFails),
          ipLimit(req, ips, ipFindFails))

\* The store calls checkSearchLimit makes.
checkCalls(deviceToken, req) ==
  (IF Falsy(deviceToken) THEN {} ELSE {"DeviceToken.findOne"})
  \cup (IF req.isNull \/ Falsy(getClientIP(req)) THEN {} ELSE {"IPLimit.findOne"})

\* src/unnamed/part_001 lines 88-108: checkSearchLimit of the revision
\* without the address signal
checkSearchLimitV1(deviceToken, tokens, findFails) ==
  IF Falsy(deviceToken) THEN Result(FALSE, 0)
  ELSE IF findFails THEN Result(FALSE, 0)
  ELSE IF findOne(tokens, deviceToken) = NoDoc THEN Result(FALSE, 0)
  ELSE limitOf(findOne(tokens, deviceToken))

\* --------------------------------------------------- incrementSearchCount
\* lines 168-191
incrementIPSearchCount(req, coll, updateFails) ==
  LET clientIP == getClientIP(req)
      hashedIP == hashIP(clientIP)
  IN
  IF Falsy(clientIP) THEN coll
  ELSE IF hashedIP = NullHash THEN coll
  ELSE IF updateFails THEN coll
  ELSE findOneAndUpsert(coll, hashedIP)

\* incrementDeviceToken with {upsert: true}, like the address increment
incrementDeviceToken_upsert(deviceToken, coll, updateFails) ==
  IF Falsy(deviceToken) THEN coll
  ELSE IF updateFails THEN coll
  ELSE findOneAndUpsert(coll, deviceToken)

\* lines 240-252
incrementDeviceToken(deviceToken, coll, updateFails) ==
  IF Falsy(deviceToken) THEN coll
  ELSE IF updateFails THEN coll
  ELSE findOneAndUpdate(coll, deviceToken)

\* incrementSearchCount without the try block around the identity update: a
\* rejected update leaves the function before the address is counted
incrementSearchCount_abort(deviceToken, req, tokens, ips, tokenUpdateFails, ipUpdateFails) ==
  [deviceTokens |-> incrementDeviceToken(deviceToken, tokens, tokenUpdateFails),
   ipLimits |-> IF req.isNull \/ (~Falsy(deviceToken) /\ tokenUpdateFails) THEN ips
                ELSE incrementIPSearchCount(req, ips, ipUpdateFails),
   threw |-> ~Falsy(deviceToken) /\ tokenUpdateFails]

\* lines 238-258.  Both store calls sit in try blocks whose catch only logs
\* (lines 249-251 and 188-190), so no rejection leaves the function.
incrementSearchCount(deviceToken, req, tokens, ips, tokenUpdateFails, ipUpdateFails) ==
  [deviceTokens |-> incrementDeviceToken(deviceToken, tokens, tokenUpdateFails),
   ipLimits |-> IF req.isNull THEN ips
                ELSE incrementIPSearchCount(req, ips, ipUpdateFails),
   threw |-> FALSE]

incrementCalls(deviceToken, req) ==
  (IF Falsy(deviceToken) THEN {} ELSE {"DeviceToken.findOneAndUpdate"})
  \cup (IF req.isNull \/ Falsy(getClientIP(req)) THEN {}
        ELSE {"IPLimit.findOneAndUpdate"})

\* ----------------------------------------------------------- inputs
\* req.protocol and the x-forwarded-proto header
Protocols == {"http", "https"}

\* Requests as they reach the middleware (it reads user and cookies only).
ResolverRequests ==
  {Request(user, cookie, "http", <<>>, Null, ClientAddr) :
     user \in BOOLEAN, cookie \in {Null, EmptyStr} \cup TokenValues}

Direct == Request(FALSE, Null, "http", <<>>, Null, ClientAddr)
Unresolvable == Request(FALSE, Null, "http", <<>>, Null, Null)

Proxied == Request(FALSE, Null, "http", <<ClientAddr, ProxyAddr>>, Null, ProxyAddr)

\* The req argument of checkSearchLimit: absent, direct, behind a proxy,
\* with no address at all.
QuotaRequests == {NoReq, Direct, Unresolvable, Proxied}

\* The deviceToken argument of checkSearchLimit: req.deviceToken of any
\* request, or a token with no record.
QuotaTokens == {Null} \cup TokenValues

\* The arguments of incrementSearchCount: searches are recorded for the first
\* identity (or none, or an orphaned one), from one address (or none).
RecordTokens == {Null, randomUUID(0), StaleToken}
RecordRequests == {NoReq, Direct, Unresolvable}

NoResult == Result(FALSE, -1)

Idle ==
  [op |-> "none", req |-> NoReq, deviceToken |-> Null, env |-> Null,
   ret |-> NoResult, reqDeviceToken |-> Null, cookies |-> <<>>,
   created |-> {}, nextCalls |-> 0, storeCalls |-> <<>>, failed |-> {}]

NoTrip == [token |-> Null, calls |-> 0, counted |-> 0]

\* Number of requests in flight at once.
NumTasks == 2
\* Number of store updates that reject in one run of concurrent requests.
MaxFailures == 1

Tasks == 1..NumTasks

NoTask ==
  [pc |-> "idle", deviceToken |-> Null, req |-> NoReq,
   deviceTokenResult |-> Result(FALSE, -1), result |-> Result(FALSE, -1)]

NoTasks == [t \in Tasks |-> NoTask]

NoTally ==
  [tokenUpdates |-> 0, ipUpdates |-> 0, failures |-> 0, ipFailures |-> 0,
   searches |-> 0, overlapped |-> FALSE]

NoProbe == [header |-> <<>>, req |-> NoReq, out |-> Null, done |-> FALSE]

\* ----------------------------------------------------------- actions
Init ==
  /\ deviceTokens = <<>>
  /\ ipLimits = <<>>
  /\ uuidCount = 0
  /\ last = Idle
  /\ trip = NoTrip
  /\ tasks = NoTasks
  /\ tally = NoTally
  /\ probe = NoProbe

\* One request passes through the getOrCreateDeviceToken middleware;
\* process.env.NODE_ENV is read when the cookie is set.
ResolveCall(req, env, findFails, createFails) ==
  LET o == getOrCreateDeviceToken(req, deviceTokens, uuidCount, env,
                                  findFails, createFails)
  IN
  /\ o.uuidCount <= MaxUUID
  /\ findFails = ("DeviceToken.findOne" \in o.failed)
  /\ createFails = ("DeviceToken.create" \in o.failed)
  /\ deviceTokens' = o.deviceTokens
  /\ uuidCount' = o.uuidCount
  /\ last' = [op |-> "getOrCreateDeviceToken", req |-> req,
              deviceToken |-> Null, env |-> env,
              ret |-> NoResult, reqDeviceToken |-> o.deviceToken,
              cookies |-> o.cookies,
              created |-> DOMAIN o.deviceTokens \ DOMAIN deviceTokens,
              nextCalls |-> o.nextCalls,
              storeCalls |-> o.storeCalls, failed |-> o.failed]
  /\ UNCHANGED ipLimits

\* A route handler calls checkSearchLimit(deviceToken, req); the store calls
\* in failing reject.
EvaluateCall(deviceToken, req, failing) ==
  /\ failing \subseteq checkCalls(deviceToken, req)
  /\ last' = [op |-> "checkSearchLimit", req |-> req,
              deviceToken |-> deviceToken, env |-> Null,
              ret |-> checkSearchLimit(deviceToken, req, deviceTokens, ipLimits,
                                       "DeviceToken.findOne" \in failing,
                                       "IPLimit.findOne" \in failing),
              reqDeviceToken |-> Null, cookies |-> <<>>, created |-> {},
              nextCalls |-> 0, storeCalls |-> <<>>, failed |-> failing]
  /\ UNCHANGED <<deviceTokens, ipLimits, uuidCount>>

\* A route handler calls incrementSearchCount(deviceToken, req).
RecordCall(deviceToken, req, failing) ==
  LET o == incrementSearchCount(deviceToken, req, deviceTokens, ipLimits,
                                "DeviceToken.findOneAndUpdate" \in failing,
                                "IPLimit.findOneAndUpdate" \in failing)
  IN
  /\ failing \subseteq incrementCalls(deviceToken, req)
  /\ \A k \in DOMAIN o.deviceTokens : o.deviceTokens[k].searchCount <= MaxCount
  /\ \A k \in DOMAIN o.ipLimits : o.ipLimits[k].searchCount <= MaxCount
  /\ deviceTokens' = o.deviceTokens
  /\ ipLimits' = o.ipLimits
  /\ last' = [op |-> "incrementSearchCount", req |-> req,
              deviceToken |-> deviceToken, env |-> Null,
              ret |-> IF o.threw THEN Thrown ELSE NoResult,
              reqDeviceToken |-> Null, cookies |-> <<>>,
              created |-> DOMAIN o.deviceTokens \ DOMAIN deviceTokens,
              nextCalls |-> 0, storeCalls |-> <<>>, failed |-> failing]
  /\ UNCHANGED uuidCount

Envs == {"production", "development"}
CheckFailures == SUBSET {"DeviceToken.findOne", "IPLimit.findOne"}
RecordFailures == SUBSET {"DeviceToken.findOneAndUpdate", "IPLimit.findOneAndUpdate"}

\* ------------------------------------------------- address derivation
\* Longest x-forwarded-for header, in pieces.
MaxHeader == 3

PeerAddr == "198.51.100.9"

\* Headers of up to MaxHeader pieces whose entries hold one address at most.
Headers ==
  {h \in UNION {[1..n -> {ClientAddr, ProxyAddr, Comma, Blank}] : n \in 0..MaxHeader} :
     \A i \in 1..Len(split(h)) : Len(trim(split(h)[i])) <= 1}

\* A request with the five places getClientIP looks at filled in.
AddressRequest(header, xri, remote, socketRemote, ip) ==
  [withForwardedFor(Request(FALSE, Null, "http", <<>>, xri, remote), header)
     EXCEPT !.socketRemoteAddress = socketRemote, !.ip = ip]

InitAddress ==
  /\ deviceTokens = <<>>
  /\ ipLimits = <<>>
  /\ uuidCount = 0
  /\ last = Idle
  /\ trip = NoTrip
  /\ tasks = NoTasks
  /\ tally = NoTally
  /\ \E header \in Headers, xri \in {Null, EmptyStr, ProxyAddr},
        remote \in {Null, PeerAddr}, socketRemote \in {Null, ProxyAddr},
        ip \in {Null, ClientAddr} :
       probe = [header |-> header,
                req |-> AddressRequest(header, xri, remote, socketRemote, ip),
                out |-> Null, done |-> FALSE]

\* Some caller derives the address of the request.
Derive ==
  /\ ~probe.done
  /\ probe' = [probe EXCEPT !.out = getClientIP(probe.req), !.done = TRUE]
  /\ UNCHANGED <<deviceTokens, ipLimits, uuidCount, last, trip, tasks, tally>>

NextAddress == Derive

SpecAddress == InitAddress /\ [][NextAddress]_vars

\* The tokens a caller can hold: those handed out so far, and values that
\* never had a record here.
Presentable == {UUIDPool[i] : i \in 1..uuidCount} \cup {Null, EmptyStr, StaleToken}

Resolve ==
  /\ \E req \in ResolverRequests, env \in Envs,
        findFails \in BOOLEAN, createFails \in BOOLEAN :
       /\ req.cookie \in Presentable
       /\ ResolveCall(req, env, findFails, createFails)
  /\ UNCHANGED <<trip, tasks, tally, probe>>

Evaluate ==
  /\ \E deviceToken \in QuotaTokens, req \in QuotaRequests, failing \in CheckFailures :
       /\ deviceToken \in Presentable
       /\ EvaluateCall(deviceToken, req, failing)
  /\ UNCHANGED <<trip, tasks, tally, probe>>

RecordSearch ==
  /\ \E deviceToken \in RecordTokens, req \in RecordRequests, failing \in RecordFailures :
       /\ deviceToken \in Presentable
       /\ RecordCall(deviceToken, req, failing)
  /\ UNCHANGED <<trip, tasks, tally, probe>>

Next == Resolve \/ Evaluate \/ RecordSearch

Spec == Init /\ [][Next]_vars

\* ------------------------------------------------ the round trip of one identity
\* An identity is minted for a first visit, searches are recorded for it, and
\* the quota is evaluated for it at any point.
FirstVisit == Request(FALSE, Null, "http", <<>>, Null, ClientAddr)

TripMint ==
  /\ trip.token = Null
  /\ \E env \in Envs, createFails \in BOOLEAN :
       ResolveCall(FirstVisit, env, FALSE, createFails)
  /\ trip' = [token |-> last'.reqDeviceToken, calls |-> 0, counted |-> 0]
  /\ UNCHANGED <<tasks, tally, probe>>

TripRecord ==
  /\ trip.token # Null
  /\ trip.calls <= MaxCount
  /\ \E req \in {NoReq, Direct}, failing \in RecordFailures :
       /\ RecordCall(trip.token, req, failing)
       /\ trip' = [trip EXCEPT
                     !.calls = @ + 1,
                     !.counted = IF "DeviceToken.findOneAndUpdate" \in failing
                                   THEN @ ELSE @ + 1]
  /\ UNCHANGED <<tasks, tally, probe>>

TripEvaluate ==
  /\ trip.token # Null
  /\ \E req \in {NoReq, Direct}, failing \in CheckFailures :
       EvaluateCall(trip.token, req, failing)
  /\ UNCHANGED <<trip, tasks, tally, probe>>

NextRoundTrip == TripMint \/ TripRecord \/ TripEvaluate

SpecRoundTrip == Init /\ [][NextRoundTrip]_vars

\* ------------------------------------------------- requests in flight
\* The functions are async: between two awaits of one call the store calls of
\* other requests take place.  Each store call is one step; the store applies
\* one findOneAndUpdate at a time (a single-document update with $inc).

\* The identity the requests in flight share: the first one issued.
SharedToken == randomUUID(0)

\* Another request is between its first and last step.
InFlight(t) == \E u \in Tasks \ {t} : tasks[u].pc # "idle"

\* The first visitor gets the shared identity.
Issue ==
  /\ uuidCount = 0
  /\ \E createFails \in BOOLEAN :
       ResolveCall(FirstVisit, "production", FALSE, createFails)
  /\ UNCHANGED <<trip, tasks, tally, probe>>

\* lines 200-219 of checkSearchLimit: the identity lookup and its result
CheckToken(t) ==
  /\ tasks[t].pc = "check_token"
  /\ \E findFails \in BOOLEAN :
       /\ findFails => ~Falsy(tasks[t].deviceToken)
       /\ tasks' = [tasks EXCEPT
            ![t].deviceTokenResult =
               deviceTokenLimit(tasks[t].deviceToken, deviceTokens, findFails),
            ![t].pc = "check_ip"]
  /\ UNCHANGED <<deviceTokens, ipLimits, uuidCount, last, trip, tally, probe>>

\* lines 222-232 of checkSearchLimit: the address lookup and the combined
\* result
CheckIP(t) ==
  /\ tasks[t].pc = "check_ip"
  /\ \E findFails \in BOOLEAN :
       /\ findFails => "IPLimit.findOne" \in checkCalls(Null, tasks[t].req)
       /\ tasks' = [tasks EXCEPT
            ![t].result = combine(tasks[t].deviceTokenResult,
                                  ipLimit(tasks[t].req, ipLimits, findFails)),
            ![t].deviceTokenResult = NoTask.deviceTokenResult,
            ![t].pc = "checked"]
  /\ UNCHANGED <<deviceTokens, ipLimits, uuidCount, last, trip, tally, probe>>

\* lines 240-252 of incrementSearchCount: the identity update
IncToken(t) ==
  /\ tasks[t].pc = "inc_token"
  /\ \E updateFails \in BOOLEAN :
       LET coll == incrementDeviceToken(tasks[t].deviceToken, deviceTokens, updateFails)
       IN
       /\ updateFails => /\ ~Falsy(tasks[t].deviceToken)
                          /\ tally.failures + tally.ipFailures < MaxFailures
       /\ \A k \in DOMAIN coll : coll[k].searchCount <= MaxCount
       /\ tally.tokenUpdates < MaxCount
       /\ deviceTokens' = coll
       /\ tally' = [tally EXCEPT
            !.tokenUpdates =
               IF ~updateFails /\ tasks[t].deviceToken \in DOMAIN deviceTokens
                 THEN @ + 1 ELSE @,
            !.failures = IF updateFails THEN @ + 1 ELSE @]
  /\ tasks' = [tasks EXCEPT ![t].pc = "inc_ip"]
  /\ UNCHANGED <<ipLimits, uuidCount, last, trip, probe>>

\* lines 255-257 of incrementSearchCount, with incrementIPSearchCount: the
\* address update; the call returns
IncIP(t) ==
  /\ tasks[t].pc = "inc_ip"
  /\ \E updateFails \in BOOLEAN :
       LET coll == IF tasks[t].req.isNull THEN ipLimits
                   ELSE incrementIPSearchCount(tasks[t].req, ipLimits, updateFails)
       IN
       /\ updateFails =>
            /\ "IPLimit.findOneAndUpdate" \in incrementCalls(Null, tasks[t].req)
            /\ tally.failures + tally.ipFailures < MaxFailures
       /\ \A k \in DOMAIN coll : coll[k].searchCount <= MaxCount
       /\ tally.ipUpdates < MaxCount
       /\ ipLimits' = coll
       /\ tally' = [tally EXCEPT
            !.ipUpdates =
               IF /\ ~updateFails
                  /\ "IPLimit.findOneAndUpdate" \in incrementCalls(Null, tasks[t].req)
                 THEN @ + 1 ELSE @,
            !.ipFailures = IF updateFails THEN @ + 1 ELSE @]
  /\ tasks' = [tasks EXCEPT ![t] = NoTask]
  /\ UNCHANGED <<deviceTokens, uuidCount, last, trip, probe>>

\* line 238: a caller enters incrementSearchCount(deviceToken, req)
IncBegin(t) ==
  /\ tasks[t].pc = "idle"
  /\ uuidCount >= 1
  /\ \E req \in {NoReq, Direct} :
       tasks' = [tasks EXCEPT ![t].pc = "inc_token",
                              ![t].deviceToken = SharedToken,
                              ![t].req = req]
  /\ tally' = [tally EXCEPT !.overlapped = @ \/ InFlight(t)]
  /\ UNCHANGED <<deviceTokens, ipLimits, uuidCount, last, trip, probe>>

NextIncrements ==
  \/ Issue
  \/ \E t \in Tasks : IncBegin(t)
  \/ \E t \in Tasks : IncToken(t)
  \/ \E t \in Tasks : IncIP(t)

\* Concurrent incrementSearchCount calls for one identity.
SpecIncrements == Init /\ [][NextIncrements]_vars

\* The route handler of a search, as the specification describes it: it has
\* req.deviceToken from the middleware, calls checkSearchLimit before the
\* search, and after an admitted search calls incrementSearchCount once.
HandlerBegin(t) ==
  /\ tasks[t].pc = "idle"
  /\ uuidCount >= 1
  /\ tasks' = [tasks EXCEPT ![t].pc = "check_token",
                             ![t].deviceToken = SharedToken,
                             ![t].req = Direct]
  /\ tally' = [tally EXCEPT !.overlapped = @ \/ InFlight(t)]
  /\ UNCHANGED <<deviceTokens, ipLimits, uuidCount, last, trip, probe>>

\* The handler acts on the result: a denied request ends, an allowed one
\* performs its search and goes on to incrementSearchCount.
HandlerDecide(t) ==
  /\ tasks[t].pc = "checked"
  /\ IF tasks[t].result.canSearch
       THEN /\ tasks' = [tasks EXCEPT ![t].pc = "inc_token",
                                       ![t].result = NoTask.result]
            /\ tally' = [tally EXCEPT !.searches = @ + 1]
       ELSE /\ tasks' = [tasks EXCEPT ![t] = NoTask]
            /\ UNCHANGED tally
  /\ UNCHANGED <<deviceTokens, ipLimits, uuidCount, last, trip, probe>>

NextHandlers ==
  \/ Issue
  \/ \E t \in Tasks : HandlerBegin(t)
  \/ \E t \in Tasks : CheckToken(t)
  \/ \E t \in Tasks : CheckIP(t)
  \/ \E t \in Tasks : HandlerDecide(t)
  \/ \E t \in Tasks : IncToken(t)
  \/ \E t \in Tasks : IncIP(t)

\* Concurrent search requests of one identity.
SpecHandlers == Init /\ [][NextHandlers]_vars

\* ------------------------------------------------------------ properties
Resolved == last.op = "getOrCreateDeviceToken"
Evaluated == last.op = "checkSearchLimit"
Recorded == last.op = "incrementSearchCount"

\* The record of this token was in the Identity Store before the last call.
HadRecord(token) == token \in DOMAIN deviceTokens \ last.created

\* searchCount of a record, 0 when there is none
StoredCount(coll, key) == IF key \in DOMAIN coll THEN coll[key].searchCount ELSE 0

FullyAllowed == Result(TRUE, MAX_FREE_SEARCHES)
Denied == Result(FALSE, 0)

\* checkSearchLimit ran with both lookups answered, for a token with a record
\* and a request with a resolvable address.
C1_Case ==
  /\ Evaluated
  /\ last.failed = {}
  /\ last.deviceToken \in DOMAIN deviceTokens
  /\ ~last.req.isNull
  /\ ~Falsy(getClientIP(last.req))

C1_i == StoredCount(deviceTokens, last.deviceToken)
C1_a == StoredCount(ipLimits, hashIP(getClientIP(last.req)))

\* C1: for stored counts i (identity) and a (address), checkSearchLimit returns
\* remaining = min(max(0, LIMIT - i), max(0, LIMIT - a)) and allowed exactly when
\* both of these are positive; i = 3, a = 5 gives (true, 1) and i = 6, a = 0
\* gives (false, 0).
C1_Evaluate ==
  C1_Case =>
    LET identityRemaining == Max(0, MAX_FREE_SEARCHES - C1_i)
        addressRemaining == Max(0, MAX_FREE_SEARCHES - C1_a)
    IN
    /\ last.ret.remaining = Min(identityRemaining, addressRemaining)
    /\ last.ret.canSearch = (identityRemaining > 0 /\ addressRemaining > 0)
    /\ (C1_i = 3 /\ C1_a = 5) => last.ret = Result(TRUE, 1)
    /\ (C1_i = 6 /\ C1_a = 0) => last.ret = Result(FALSE, 0)

C1_Witness ==
  C1_Case /\ C1_i = 3 /\ C1_a = 5 /\ last.ret = Result(TRUE, 1)

\* C2: a lookup that fails inside checkSearchLimit contributes (true, LIMIT), so
\* the result is what the other signal alone gives: for the identity lookup as
\* for the address lookup.
C2_FailOpen ==
  (Evaluated /\ last.failed # {}) =>
    last.ret =
      combine(IF "DeviceToken.findOne" \in last.failed
                THEN FullyAllowed
                ELSE deviceTokenLimit(last.deviceToken, deviceTokens, FALSE),
              IF "IPLimit.findOne" \in last.failed
                THEN FullyAllowed
                ELSE ipLimit(last.req, ipLimits, FALSE))

\* The address lookup failed and the identity signal, read from its record,
\* allows the search.
C3_Case ==
  /\ Evaluated
  /\ "IPLimit.findOne" \in last.failed
  /\ "DeviceToken.findOne" \notin last.failed
  /\ last.deviceToken \in DOMAIN deviceTokens
  /\ deviceTokens[last.deviceToken].searchCount < MAX_FREE_SEARCHES

\* C3: when the address lookup fails and the identity record has
\* searchCount < LIMIT, checkSearchLimit allows the search and reports the
\* identity's remaining count.
C3_AddressFailOpen ==
  C3_Case =>
    /\ last.ret.canSearch
    /\ last.ret.remaining =
         MAX_FREE_SEARCHES - deviceTokens[last.deviceToken].searchCount

\* the address record is at the limit, so only the failure lets the search pass
C3_Witness ==
  /\ C3_Case
  /\ StoredCount(ipLimits, hashIP(getClientIP(last.req))) >= MAX_FREE_SEARCHES
  /\ last.ret.canSearch

\* The middleware handled a request that carries no device_token cookie.
C4_Case == Resolved /\ last.req.cookie = Null

\* the one cookie carries the token of the one record created, which is new
MintedOne ==
  /\ Len(last.cookies) = 1
  /\ Cardinality(last.created) = 1
  /\ last.created = {last.cookies[1].value}
  /\ deviceTokens[last.cookies[1].value] = NewDoc

\* C4 as stated: every request without a device_token cookie gets exactly one
\* cookie and exactly one new record with searchCount = 0.
C4_Stated == C4_Case => MintedOne

\* C4 as amended: so it is for a caller with no session whose create succeeds;
\* for a caller with a session, or when the create fails, no cookie is set and
\* no record is created.
C4_NoCookieMints ==
  C4_Case =>
    IF ~last.req.user /\ last.failed = {}
      THEN MintedOne /\ last.reqDeviceToken = last.cookies[1].value
      ELSE last.cookies = <<>> /\ last.created = {}

C4_Witness ==
  C4_Case /\ ~last.req.user /\ last.failed = {} /\ MintedOne

\* The middleware handled a request whose cookie names a record of the store.
C5_Case == Resolved /\ HadRecord(last.req.cookie)

\* C5 as stated: no record is created, no cookie is set, and the presented
\* token is attached unchanged as req.deviceToken.
C5_Stated ==
  C5_Case =>
    /\ last.created = {}
    /\ last.cookies = <<>>
    /\ last.reqDeviceToken = last.req.cookie

\* C5 as amended: no record is created and no cookie is set; the presented
\* token is attached when the caller has no session and the lookup succeeds,
\* and null is attached otherwise.
C5_KnownCookieKept ==
  C5_Case =>
    /\ last.created = {}
    /\ last.cookies = <<>>
    /\ last.reqDeviceToken =
         IF ~last.req.user /\ last.failed = {} THEN last.req.cookie ELSE Null

C5_Witness ==
  /\ C5_Case
  /\ ~last.req.user
  /\ last.storeCalls = <<"DeviceToken.findOne">>
  /\ last.failed = {}
  /\ last.reqDeviceToken = last.req.cookie

\* The middleware handled a request whose cookie names no record of the store.
C6_Case == Resolved /\ ~Falsy(last.req.cookie) /\ ~HadRecord(last.req.cookie)

\* a token other than the presented one was minted, recorded and sent
Reissued ==
  /\ MintedOne
  /\ last.cookies[1].value # last.req.cookie
  /\ last.reqDeviceToken = last.cookies[1].value

\* C6 as stated: the orphaned cookie is always replaced by a new token with a
\* new record and a new cookie, and no record appears under the old value.
C6_Stated ==
  C6_Case => Reissued /\ last.req.cookie \notin DOMAIN deviceTokens

\* C6 as amended: so it is for a caller with no session whose lookup and
\* create succeed; in every case no record appears under the presented value,
\* and without a successful mint no cookie is set and no record is created.
C6_OrphanReissued ==
  C6_Case =>
    /\ last.req.cookie \notin DOMAIN deviceTokens
    /\ IF ~last.req.user /\ last.failed = {}
         THEN Reissued
         ELSE last.cookies = <<>> /\ last.created = {} /\ last.reqDeviceToken = Null

C6_Witness ==
  C6_Case /\ ~last.req.user /\ last.failed = {} /\ Reissued

\* C7: the middleware calls next() exactly once on every path, and when a store
\* call failed req.deviceToken is null, no cookie is set and nothing is created.
C7_AlwaysNext ==
  Resolved =>
    /\ last.nextCalls = 1
    /\ last.failed # {} =>
         last.reqDeviceToken = Null /\ last.cookies = <<>> /\ last.created = {}

C7_Witness ==
  /\ Resolved
  /\ last.failed = {"DeviceToken.create"}
  /\ last.nextCalls = 1
  /\ last.reqDeviceToken = Null

\* C8: for a request with req.user set the middleware makes no store call, sets
\* no cookie, creates nothing and sets req.deviceToken to null.
C8_SessionSkips ==
  (Resolved /\ last.req.user) =>
    /\ last.storeCalls = <<>>
    /\ last.cookies = <<>>
    /\ last.created = {}
    /\ last.reqDeviceToken = Null

\* a caller with a session who presents an orphaned cookie
C8_Witness ==
  /\ Resolved
  /\ last.req.user
  /\ last.req.cookie = StaleToken
  /\ last.storeCalls = <<>>
  /\ last.reqDeviceToken = Null

\* checkSearchLimit ran with no token, or with a token that has no record.
C9_Case ==
  Evaluated /\ (Falsy(last.deviceToken) \/ last.deviceToken \notin DOMAIN deviceTokens)

\* C9: with no token or no record checkSearchLimit returns (false, 0), whatever
\* the address signal says; so does the revision without the address signal.
C9_NoIdentityDenied ==
  C9_Case =>
    /\ last.ret = Denied
    /\ checkSearchLimitV1(last.deviceToken, deviceTokens,
                          "DeviceToken.findOne" \in last.failed) = Denied

\* an orphaned token from an address that has no record yet
C9_Witness ==
  /\ C9_Case
  /\ last.deviceToken = StaleToken
  /\ last.req = Direct
  /\ last.failed = {}
  /\ hashIP(ClientAddr) \notin DOMAIN ipLimits
  /\ last.ret = Denied

\* checkSearchLimit ran for the identity of the round trip.
C10_Case == Evaluated /\ trip.token # Null /\ last.deviceToken = trip.token

\* C10 as stated: once incrementSearchCount has been called LIMIT times or
\* more for a minted identity, checkSearchLimit returns (false, 0).
C10_Stated ==
  (C10_Case /\ trip.calls >= MAX_FREE_SEARCHES) => last.ret = Denied

\* C10 as amended: the stored count is the number of calls whose Identity Store
\* update succeeded, and once LIMIT or more of them have, checkSearchLimit
\* returns (false, 0): remaining stays 0 and never turns negative.
C10_RoundTrip ==
  /\ trip.token # Null =>
       /\ trip.token \in DOMAIN deviceTokens
       /\ deviceTokens[trip.token].searchCount = trip.counted
  /\ (C10_Case /\ trip.counted >= MAX_FREE_SEARCHES) => last.ret = Denied

\* one increment past the limit, asked with both lookups answered
C10_Witness ==
  /\ C10_Case
  /\ trip.counted = MAX_FREE_SEARCHES + 1
  /\ last.failed = {}
  /\ last.ret = Denied

\* -------------------------------------------------------------- C11
\* the identity of the round trip has had N >= 1 calls of incrementSearchCount
\* and the Identity Store applied every one of its updates
C11_Case == trip.token # Null /\ trip.calls >= 1 /\ trip.counted = trip.calls

\* C11: incrementSearchCount is not idempotent: after N calls for the same
\* token, whose record exists, with the Identity Store answering every update,
\* the stored searchCount is the count at issue (0) plus exactly N.
C11_CountsEveryCall ==
  C11_Case => StoredCount(deviceTokens, trip.token) = trip.calls

\* three calls, three counted
C11_Witness ==
  /\ C11_Case
  /\ trip.calls = 3
  /\ StoredCount(deviceTokens, trip.token) = 3

\* -------------------------------------------------------------- C13
\* C13: the two increments of incrementSearchCount are independent.  A call
\* whose identity update is rejected still counts the search against the
\* address (the record is there afterwards, one higher), and a call whose
\* address update is rejected still counts it against the identity.
C13_Independent ==
  [][last'.op = "incrementSearchCount" =>
       LET deviceToken == last'.deviceToken
           req == last'.req
           hashedIP == hashIP(getClientIP(req))
           tokenFailed == "DeviceToken.findOneAndUpdate" \in last'.failed
           ipFailed == "IPLimit.findOneAndUpdate" \in last'.failed
       IN
       /\ (tokenFailed /\ ~ipFailed /\ ~req.isNull /\ hashedIP # NullHash) =>
            /\ hashedIP \in DOMAIN ipLimits'
            /\ ipLimits'[hashedIP].searchCount = StoredCount(ipLimits, hashedIP) + 1
            /\ deviceTokens' = deviceTokens
       /\ (ipFailed /\ ~tokenFailed /\ deviceToken \in DOMAIN deviceTokens) =>
            /\ deviceTokens'[deviceToken].searchCount
                 = deviceTokens[deviceToken].searchCount + 1
            /\ ipLimits' = ipLimits]_vars

\* the identity update was rejected, and the address has its record; the
\* identity was never counted
C13_Witness ==
  /\ Recorded
  /\ last.failed = {"DeviceToken.findOneAndUpdate"}
  /\ last.deviceToken \in DOMAIN deviceTokens
  /\ StoredCount(deviceTokens, last.deviceToken) = 0
  /\ ~last.req.isNull
  /\ StoredCount(ipLimits, hashIP(getClientIP(last.req))) >= 1

\* -------------------------------------------------------------- C14
\* C14: neither checkSearchLimit nor incrementSearchCount lets an error out,
\* whichever of their store calls reject: checkSearchLimit always returns a
\* result with a boolean canSearch and a remaining count of 0..MAX_FREE_SEARCHES,
\* and incrementSearchCount always returns (with no value).
C14_NeverThrows ==
  /\ Evaluated =>
       /\ last.ret # Thrown
       /\ last.ret.canSearch \in BOOLEAN
       /\ last.ret.remaining \in 0..MAX_FREE_SEARCHES
  /\ Recorded => last.ret = NoResult

\* both lookups of one checkSearchLimit call rejected
C14_Witness ==
  /\ Evaluated
  /\ last.failed = {"DeviceToken.findOne", "IPLimit.findOne"}
  /\ last.ret = Denied

\* -------------------------------------------------------------- C15
\* getOrCreateDeviceToken ran for a request without an authenticated session
C15_Case == Resolved /\ ~last.req.user

\* the orphan-cookie case: a cookie was presented and its token had no record
C15_Orphan ==
  /\ C15_Case
  /\ ~Falsy(last.req.cookie)
  /\ ~HadRecord(last.req.cookie)

\* C15 as stated: every request without a session makes exactly one
\* create-or-lookup call to the Identity Store, in all three cases (no cookie,
\* cookie with a record, cookie without a record).
C15_Stated == C15_Case => Len(last.storeCalls) = 1

\* C15: a request without a session makes exactly one Identity Store call when
\* it has no cookie (a create) or a cookie whose lookup finds a record or
\* rejects (a findOne); a cookie whose lookup finds no record costs two calls,
\* the findOne and then the create.
C15_StoreCalls ==
  C15_Case =>
    last.storeCalls =
      IF Falsy(last.req.cookie) THEN <<"DeviceToken.create">>
      ELSE IF "DeviceToken.findOne" \in last.failed \/ HadRecord(last.req.cookie)
        THEN <<"DeviceToken.findOne">>
      ELSE <<"DeviceToken.findOne", "DeviceToken.create">>

\* an orphaned cookie was replaced: two calls
C15_Witness ==
  /\ C15_Orphan
  /\ last.failed = {}
  /\ Len(last.storeCalls) = 2
  /\ Len(last.cookies) = 1

\* -------------------------------------------------------------- C16
\* C16: getOrCreateDeviceToken sets at most one cookie per request; when it
\* sets one, the cookie carries a token minted in this request whose record
\* was created in this request (so no cookie ever names a token without a
\* record), and that token is req.deviceToken; when the presented token is
\* accepted no cookie is set.
C16_CookieOnlyOnMint ==
  Resolved =>
    /\ Len(last.cookies) <= 1
    /\ last.cookies # <<>> =>
         /\ last.cookies[1].name = DEVICE_TOKEN_COOKIE_NAME
         /\ last.cookies[1].value \in last.created
         /\ last.cookies[1].value \in DOMAIN deviceTokens
         /\ last.cookies[1].value # last.req.cookie
         /\ last.reqDeviceToken = last.cookies[1].value
    /\ (~Falsy(last.req.cookie) /\ last.reqDeviceToken = last.req.cookie) =>
         last.cookies = <<>>

\* a request without a cookie got one, for a token recorded in this request
C16_Witness ==
  /\ Resolved
  /\ Falsy(last.req.cookie)
  /\ Len(last.cookies) = 1
  /\ last.created = {last.cookies[1].value}

\* -------------------------------------------------------------- C17
\* checkSearchLimit ran with a request for which there is no evidence about
\* the address: none can be derived, or the derived one has no record
C17_Case ==
  /\ Evaluated
  /\ ~last.req.isNull
  /\ \/ Falsy(getClientIP(last.req))
     \/ hashIP(getClientIP(last.req)) \notin DOMAIN ipLimits

\* the result of the identity signal alone
C17_IdentityResult ==
  IF /\ last.deviceToken \in DOMAIN deviceTokens
     /\ "DeviceToken.findOne" \notin last.failed
    THEN LET remaining ==
               Max(0, MAX_FREE_SEARCHES - deviceTokens[last.deviceToken].searchCount)
         IN Result(remaining > 0, remaining)
    ELSE Result(FALSE, 0)

\* C17: without evidence about the address (no address can be derived from the
\* request, or no record exists for its hash) the address signal is fully
\* allowed, so checkSearchLimit returns exactly the result of the identity
\* signal.
C17_NoEvidenceAllows == C17_Case => last.ret = C17_IdentityResult

\* an identity with searches left, asked from an address never counted
C17_Witness ==
  /\ C17_Case
  /\ last.failed = {}
  /\ ~Falsy(getClientIP(last.req))
  /\ StoredCount(deviceTokens, last.deviceToken) = 2
  /\ last.ret = Result(TRUE, MAX_FREE_SEARCHES - 2)

\* -------------------------------------------------------------- C19
\* a token was minted and its cookie sent
C19_Case == Resolved /\ Len(last.cookies) = 1

\* C19: the cookie sent with a new token is HTTP-only, has path "/" and a
\* max-age of one year, and carries the secure attribute exactly when the
\* request arrived over a secure transport (https, directly or as reported by
\* the proxy); this in the current middleware and in the revision of
\* src/unnamed/part_001.
C19_SecureFollowsTransport ==
  /\ C19_Case =>
       LET options == last.cookies[1].options IN
       /\ options.httpOnly
       /\ options.path = "/"
       /\ options.maxAge = 365 * 24 * 60 * 60
       /\ options.secure = (last.req.protocol = "https")
  /\ C19_Case =>
       \A vercel \in BOOLEAN, xForwardedProto \in Protocols :
         cookieOptionsV1(last.env, vercel, last.req.protocol, xForwardedProto).secure
           = (last.req.protocol = "https" \/ xForwardedProto = "https")

\* -------------------------------------------------------------- C18
\* the piece of the header before its first comma, blanks dropped
C18_FirstEntry ==
  LET h == probe.header
      commas == {i \in 1..Len(h) : h[i] = Comma}
      end == IF commas = {} THEN Len(h)
             ELSE (CHOOSE i \in commas : \A j \in commas : i <= j) - 1
      entry == SelectSeq(SubSeq(h, 1, end), LAMBDA piece : piece # Blank)
  IN IF entry = <<>> THEN EmptyStr ELSE entry[1]

\* the transport-layer peer address, from wherever the framework keeps it
C18_Peer ==
  LET seen == {probe.req.remoteAddress, probe.req.socketRemoteAddress, probe.req.ip}
               \ {Null, EmptyStr}
  IN IF seen = {} THEN Null
     ELSE IF probe.req.remoteAddress \in seen THEN probe.req.remoteAddress
     ELSE IF probe.req.socketRemoteAddress \in seen THEN probe.req.socketRemoteAddress
     ELSE probe.req.ip

\* C18: for every combination of present and absent inputs getClientIP returns
\* the first entry of the x-forwarded-for header when the header is present
\* (non-empty), else the x-real-ip header when present, else the transport
\* peer address, else null.
C18_Priority ==
  probe.done =>
    probe.out =
      IF probe.header # <<>> THEN C18_FirstEntry
      ELSE IF probe.req.xRealIp \notin {Null, EmptyStr} THEN probe.req.xRealIp
      ELSE C18_Peer

\* all three sources present, each with another address: the first entry of
\* the forwarded list wins
C18_Witness ==
  /\ probe.done
  /\ probe.header = <<Blank, ClientAddr, Comma>>
  /\ probe.req.xRealIp = ProxyAddr
  /\ probe.req.remoteAddress = PeerAddr
  /\ probe.out = ClientAddr

\* -------------------------------------------------------------- C12
\* C12: the address increment is an upsert that the store applies as one
\* update: the first one creates the record with searchCount = 1, every later
\* one adds 1.  However the incrementSearchCount calls of concurrent requests
\* interleave, the stored count of the address is the number of updates the
\* store applied for it, and likewise for the identity: after K increments
\* the count is the initial 0 plus K, none is lost.
C12_NoLostUpdate ==
  /\ StoredCount(deviceTokens, SharedToken) = tally.tokenUpdates
  /\ StoredCount(ipLimits, hashIP(getClientIP(Direct))) = tally.ipUpdates
  /\ hashIP(getClientIP(Direct)) \in DOMAIN ipLimits <=> tally.ipUpdates >= 1

\* two calls in flight at once, each past its identity update and before its
\* address update: both identity updates counted
C12_Witness ==
  /\ \A t \in {1, 2} : tasks[t].pc = "inc_ip" /\ ~tasks[t].req.isNull
  /\ tally.failures = 0
  /\ tally.tokenUpdates = 2
  /\ tally.ipUpdates = 0
  /\ StoredCount(deviceTokens, SharedToken) = 2

\* -------------------------------------------------------------- C20
\* C20 as stated: however the concurrent requests of one identity interleave,
\* no more than MAX_FREE_SEARCHES of them are admitted to search.
C20_Stated == tally.searches <= MAX_FREE_SEARCHES

\* C20: the requests of one identity are admitted to at most MAX_FREE_SEARCHES
\* searches when they are handled one after another and the store applies
\* every identity update; with up to NumTasks requests in flight at once the
\* number admitted can exceed the quota, by at most NumTasks - 1 plus the
\* number of identity updates the store rejected.
C20_AdmittedBound ==
  /\ tally.searches <= MAX_FREE_SEARCHES + (NumTasks - 1) + tally.failures
  /\ (~tally.overlapped /\ tally.failures = 0) =>
       tally.searches <= MAX_FREE_SEARCHES

\* two requests checked at count 5 and both searched: seven searches with
\* every update applied
C20_Witness ==
  /\ tally.searches = MAX_FREE_SEARCHES + 1
  /\ tally.failures = 0
  /\ tally.overlapped
  /\ StoredCount(deviceTokens, SharedToken) = MAX_FREE_SEARCHES + 1
  /\ \A t \in Tasks : tasks[t].pc = "idle"

\* -------------------------------------------------------------- C21
\* every record of coll is still in coll2, with a count that is a natural
\* number and not lower
C21_Grows(coll, coll2) ==
  /\ \A k \in DOMAIN coll2 : coll2[k].searchCount \in Nat
  /\ \A k \in DOMAIN coll :
       /\ k \in DOMAIN coll2
       /\ coll2[k].searchCount >= coll[k].searchCount

\* C21: across every step of getOrCreateDeviceToken, checkSearchLimit and
\* incrementSearchCount, failed store calls included, the searchCount of every
\* identity record and of every address record is a non-negative integer and
\* does not decrease (and no record disappears).
C21_CountsMonotone ==
  [][/\ C21_Grows(deviceTokens, deviceTokens')
     /\ C21_Grows(ipLimits, ipLimits')]_vars

\* a call whose updates were both rejected, after searches had been counted
\* for the identity and the address
C21_Witness ==
  /\ Recorded
  /\ last.failed = {"DeviceToken.findOneAndUpdate", "IPLimit.findOneAndUpdate"}
  /\ StoredCount(deviceTokens, last.deviceToken) = 2
  /\ StoredCount(ipLimits, hashIP(getClientIP(last.req))) = 3

\* -------------------------------------------------------------- C22
\* the address a request comes from: the client in front of the proxies, or
\* the peer; none for a missing request
C22_Address(req) ==
  IF req.isNull THEN Null
  ELSE IF req.xForwardedFor # <<>> THEN req.xForwardedFor[1]
  ELSE IF req.xRealIp \notin {Null, EmptyStr} THEN req.xRealIp
  ELSE IF req.remoteAddress \notin {Null, EmptyStr} THEN req.remoteAddress
  ELSE Null

\* two checkSearchLimit calls in a row, for the same token from the same
\* address
C22_Again ==
  /\ Evaluated
  /\ last'.op = "checkSearchLimit"
  /\ last'.deviceToken = last.deviceToken
  /\ C22_Address(last'.req) = C22_Address(last.req)

\* checkSearchLimit writes nothing
C22_ReadOnly ==
  last'.op = "checkSearchLimit" =>
    /\ deviceTokens' = deviceTokens
    /\ ipLimits' = ipLimits

\* C22 as stated: checkSearchLimit leaves both stores unchanged, and two
\* calls against the same store state with the same token and address return
\* the same result.
C22_Stated ==
  [][/\ C22_ReadOnly
     /\ C22_Again => last'.ret = last.ret]_vars

\* C22: checkSearchLimit leaves both stores unchanged (no record created, no
\* counter or timestamp changed), and two calls against the same store state
\* with the same token and address return the same result when the same
\* lookups are answered; a lookup that rejects in one call and not in the
\* other can change the result.
C22_ReadOnlyDeterministic ==
  [][/\ C22_ReadOnly
     /\ (C22_Again /\ last'.failed = last.failed) => last'.ret = last.ret]_vars

\* asked directly and then through a proxy, for the same client address that
\* has searches counted: the same answer
C22_Witness ==
  /\ Evaluated
  /\ last.req = Proxied
  /\ last.failed = {}
  /\ last.deviceToken \in DOMAIN deviceTokens
  /\ StoredCount(ipLimits, hashIP(ClientAddr)) = 4
  /\ last.ret = Result(TRUE, MAX_FREE_SEARCHES - 4)

\* -------------------------------------------------------------- C23
\* C23: every result of checkSearchLimit, whether records are missing or
\* lookups rejected, has 0 <= remaining <= MAX_FREE_SEARCHES, and canSearch is
\* true exactly when remaining > 0.
C23_ResultShape ==
  Evaluated =>
    /\ 0 <= last.ret.remaining
    /\ last.ret.remaining <= MAX_FREE_SEARCHES
    /\ last.ret.canSearch <=> last.ret.remaining > 0

\* a count one past the limit: remaining is 0, not negative
C23_Witness ==
  /\ Evaluated
  /\ last.failed = {}
  /\ StoredCount(deviceTokens, last.deviceToken) = MAX_FREE_SEARCHES + 1
  /\ last.ret = Result(FALSE, 0)

\* -------------------------------------------------------------- C24
\* the identity records whose count has reached the limit
C24_Exhausted(coll) ==
  {k \in DOMAIN coll : coll[k].searchCount >= MAX_FREE_SEARCHES}

\* C24: denial is permanent.  An identity whose searchCount has reached
\* MAX_FREE_SEARCHES stays there across every later call of
\* getOrCreateDeviceToken, checkSearchLimit and incrementSearchCount, and every
\* checkSearchLimit for it returns {canSearch: false, remaining: 0}, from any
\* address and whichever store calls reject.
C24_DenialPermanent ==
  [][/\ C24_Exhausted(deviceTokens) \subseteq C24_Exhausted(deviceTokens')
     /\ (/\ last'.op = "checkSearchLimit"
         /\ last'.deviceToken \in C24_Exhausted(deviceTokens')) =>
          last'.ret = Result(FALSE, 0)]_vars

\* an exhausted identity asks from an address with no record while the
\* identity lookup rejects
C24_Witness ==
  /\ Evaluated
  /\ last.deviceToken \in C24_Exhausted(deviceTokens)
  /\ last.failed = {"DeviceToken.findOne"}
  /\ last.req = Direct
  /\ StoredCount(ipLimits, hashIP(ClientAddr)) = 0
  /\ last.ret = Result(FALSE, 0)

\* -------------------------------------------------------------- C25
\* incrementSearchCount was called with a token that has no identity record
C25_Case ==
  /\ last'.op = "incrementSearchCount"
  /\ last'.deviceToken \notin DOMAIN deviceTokens

\* the address of the request is counted: its record is there, one higher
C25_AddressCounted ==
  LET hashedIP == hashIP(getClientIP(last'.req)) IN
  /\ hashedIP \in DOMAIN ipLimits'
  /\ ipLimits'[hashedIP].searchCount = StoredCount(ipLimits, hashedIP) + 1

\* the request has an address getClientIP can derive
C25_Resolvable == ~last'.req.isNull /\ ~Falsy(getClientIP(last'.req))

\* C25 as stated: incrementSearchCount never creates an identity record, and
\* called with a token that has no record it leaves the Identity Store
\* unchanged while it still upserts the address record of a request with a
\* resolvable address.
C25_Stated ==
  [][/\ last'.op = "incrementSearchCount" => DOMAIN deviceTokens' = DOMAIN deviceTokens
     /\ C25_Case => deviceTokens' = deviceTokens
     /\ (C25_Case /\ C25_Resolvable) => C25_AddressCounted]_vars

\* C25: incrementSearchCount never creates an identity record, and called
\* with a token that has no record it leaves the Identity Store unchanged;
\* the same call still upserts the address record of a request with a
\* resolvable address, unless the store rejects that update.
C25_NoIdentityCreated ==
  [][/\ last'.op = "incrementSearchCount" => DOMAIN deviceTokens' = DOMAIN deviceTokens
     /\ C25_Case => deviceTokens' = deviceTokens
     /\ (C25_Case /\ C25_Resolvable
           /\ "IPLimit.findOneAndUpdate" \notin last'.failed) =>
          C25_AddressCounted]_vars

\* a search recorded for a token that never had a record: no identity record
\* anywhere, the address counted
C25_Witness ==
  /\ Recorded
  /\ last.deviceToken = StaleToken
  /\ last.failed = {}
  /\ deviceTokens = <<>>
  /\ StoredCount(ipLimits, hashIP(getClientIP(last.req))) = 1

====
